---- MODULE Spec2Model ----
(***************************************************************************)
(* Model of solderium (src/src/lib.rs): generate_symlinks merges a source  *)
(* directory into a target directory by creating symlinks, under one of    *)
(* four overwrite policies and the .keep / .keep_files / .keep_dirs marker *)
(* files.                                                                  *)
(*                                                                         *)
(* The filesystem is a function from the physical paths that exist to      *)
(* their nodes.  A path is a sequence of names; <<>> is "/".  A node is a  *)
(* regular file, a directory or a symbolic link holding an absolute path.  *)
(* The std::path / std::fs calls the program makes are modelled with the   *)
(* symlink-following rules of the calls the code uses: exists, is_file and *)
(* is_dir follow links (stat), is_symlink, remove_file, remove_dir_all and *)
(* symlink act on the last component itself (lstat).                       *)
(***************************************************************************)
EXTENDS Integers, Sequences, FiniteSets, TLC

\* ---------------------------------------------------------------- bounds
\* Number of entries the environment creates before the first call.
MaxNodes == 4
\* Number of successive calls of generate_symlinks with the same arguments.
MaxCalls == 2
\* Deepest entry below the source root and below the target root.
SrcDepth == 2
TgtDepth == 3
\* Number of entries one call pops before the model stops following it (a
\* source tree with a symlinked directory can be walked without end).
MaxPops == 6

\* ------------------------------------------------------------- universe
Markers == {".keep", ".keep_files", ".keep_dirs"}
PlainNames == {"a", "b"}
Names == PlainNames \cup Markers

Root == <<>>
SrcDir == <<"s">>
TgtDir == <<"t">>
PlainFile == <<"f">>
Missing == <<"m">>
NoPath == <<"!">>

Policies == {"All", "Dirs", "Files", "None"}

VARIABLES
  fs,        \* the filesystem: physical path -> node
  pc,        \* "idle" (before the first call), "run" (in the loop), "done"
  argSource, \* the source argument of the call
  argTarget, \* the target argument of the call
  source,    \* canonicalized source (line 33)
  target,    \* canonicalized target (line 34)
  overwrite, \* the policy of the call
  stack,     \* the work stack of pending source paths (line 41)
  result,    \* "none" while running, "ok" or "err" once returned
  calls,     \* number of calls started
  fsPre,     \* history: the filesystem when the current call started
  fsEnd1,    \* history: the filesystem when the first call returned
  result1,   \* history: the result of the first call
  removed,   \* history: removals of the current call
  created,   \* history: symlinks created by the current call
  listed,    \* history: directories listed by the current call
  popped     \* history: source paths popped by the current call, in order

vars == <<fs, pc, argSource, argTarget, source, target, overwrite, stack,
          result, calls, fsPre, fsEnd1, result1, removed, created, listed,
          popped>>

\* ----------------------------------------------------------- filesystem
FileNode == [kind |-> "file", to |-> <<>>]
DirNode == [kind |-> "dir", to |-> <<>>]
LinkNode(t) == [kind |-> "link", to |-> t]

Front(p) == SubSeq(p, 1, Len(p) - 1)
Last(p) == IF p = <<>> THEN "" ELSE p[Len(p)]
IsPrefix(p, q) == Len(p) <= Len(q) /\ SubSeq(q, 1, Len(p)) = p

Kind(f, p) == IF p \in DOMAIN f THEN f[p].kind ELSE "none"

\* Path resolution as stat(2) does it: every component that is a symbolic
\* link is followed; the fuel stands for ELOOP.
RECURSIVE Walk(_, _, _, _)
Walk(f, cur, rest, fuel) ==
  IF rest = <<>> THEN cur
  ELSE IF Kind(f, cur) # "dir" THEN NoPath
  ELSE LET q == Append(cur, Head(rest)) IN
       IF q \notin DOMAIN f THEN NoPath
       ELSE IF f[q].kind = "link"
            THEN IF fuel = 0 THEN NoPath
                 ELSE Walk(f, Root, f[q].to \o Tail(rest), fuel - 1)
            ELSE Walk(f, q, Tail(rest), fuel)

\* Path::canonicalize: the physical path, NoPath when it does not resolve.
canonicalize(f, p) == Walk(f, Root, p, Cardinality(DOMAIN f))

\* The physical place of the last component of p (lstat(2)).
LPath(f, p) ==
  IF p = Root THEN Root
  ELSE LET par == canonicalize(f, Front(p)) IN
       IF par = NoPath \/ Kind(f, par) # "dir" THEN NoPath
       ELSE Append(par, Last(p))

StatKind(f, p) == Kind(f, canonicalize(f, p))
LKind(f, p) == Kind(f, LPath(f, p))

exists(f, p) == StatKind(f, p) # "none"
is_file(f, p) == StatKind(f, p) = "file"
is_dir(f, p) == StatKind(f, p) = "dir"
is_symlink(f, p) == LKind(f, p) = "link"
read_link(f, p) == f[LPath(f, p)].to

Without(f, gone) == [q \in DOMAIN f \ gone |-> f[q]]
With(f, p, node) == [q \in DOMAIN f \cup {p} |-> IF q = p THEN node ELSE f[q]]

\* std::fs::remove_file: unlinks a file or a link, never a directory.
remove_file(f, p) ==
  IF LKind(f, p) \in {"file", "link"}
  THEN [ok |-> TRUE, fs |-> Without(f, {LPath(f, p)})]
  ELSE [ok |-> FALSE, fs |-> f]

\* std::fs::remove_dir_all: a link is unlinked, a directory goes with all
\* its contents (links inside it are not followed).
remove_dir_all(f, p) ==
  CASE LKind(f, p) = "link" -> [ok |-> TRUE, fs |-> Without(f, {LPath(f, p)})]
    [] LKind(f, p) = "dir" ->
         [ok |-> TRUE,
          fs |-> Without(f, {q \in DOMAIN f : IsPrefix(LPath(f, p), q)})]
    [] OTHER -> [ok |-> FALSE, fs |-> f]

\* std::os::unix::fs::symlink(src, dst): EEXIST when anything, even a
\* dangling link, is at dst; ENOENT / ENOTDIR when the parent is no directory.
symlink(f, src, dst) ==
  IF LPath(f, dst) = NoPath \/ LPath(f, dst) \in DOMAIN f
  THEN [ok |-> FALSE, fs |-> f]
  ELSE [ok |-> TRUE, fs |-> With(f, LPath(f, dst), LinkNode(src))]

\* std::fs::read_dir(p): the entries of the directory p resolves to, each
\* with the path p joined with the entry's name.
read_dir(f, p) ==
  IF ~is_dir(f, p) THEN [ok |-> FALSE, entries |-> {}]
  ELSE LET d == canonicalize(f, p) IN
       [ok |-> TRUE,
        entries |-> {Append(p, Last(q)) :
                       q \in {r \in DOMAIN f : Len(r) = Len(d) + 1 /\ IsPrefix(d, r)}}]

\* ------------------------------------------------------------- helpers
\* lib.rs 151-156
resolve_symlink(f, p) == IF is_symlink(f, p) THEN read_link(f, p) ELSE p

\* All orders in which a listing can yield the entries of a directory.
RECURSIVE Orders(_)
Orders(S) ==
  IF S = {} THEN {<<>>}
  ELSE UNION {{<<e>> \o o : o \in Orders(S \ {e})} : e \in S}

\* lib.rs 144-149: the possible outcomes of go_deeper, one per listing order.
go_deeper(f, stk, path) ==
  LET l == read_dir(f, resolve_symlink(f, path)) IN
  IF ~l.ok THEN {[ok |-> FALSE, stack |-> stk, dir |-> resolve_symlink(f, path)]}
  ELSE {[ok |-> TRUE, stack |-> stk \o o, dir |-> resolve_symlink(f, path)] :
          o \in Orders(l.entries)}

\* PathBuf::set_file_name: replaces the last component, pushes onto "/".
set_file_name(p, k) == IF p = Root THEN <<k>> ELSE Append(Front(p), k)

\* Path::ancestors: the path itself, its parent, ... up to "/".
ancestors(p) == {SubSeq(p, 1, n) : n \in 0..Len(p)}

\* lib.rs 158-174
keep_path(f, path, keep) ==
  \/ \E k \in keep : exists(f, Append(path, k))
  \/ \E anc \in ancestors(path) : \E k \in keep : exists(f, set_file_name(anc, k))

\* lib.rs 176-181
remove_path(f, path) ==
  IF is_file(f, path) THEN remove_file(f, path) ELSE remove_dir_all(f, path)

KeepFiles == {".keep", ".keep_files"}
KeepDirs == {".keep", ".keep_dirs"}

\* lib.rs 52-57: the mirrored target path; NoPath when strip_prefix fails.
target_path_of(src, tgt, source_path) ==
  IF IsPrefix(src, source_path)
  THEN tgt \o SubSeq(source_path, Len(src) + 1, Len(source_path))
  ELSE NoPath

\* ------------------------------------------------------------------ Init
Init ==
  /\ fs = [p \in {Root, SrcDir, TgtDir, PlainFile} |->
             IF p = PlainFile THEN FileNode ELSE DirNode]
  /\ pc = "idle"
  /\ argSource = Root /\ argTarget = Root
  /\ source = Root /\ target = Root
  /\ overwrite = "None"
  /\ stack = <<>>
  /\ result = "none"
  /\ calls = 0
  /\ fsPre = fs
  /\ fsEnd1 = fs
  /\ result1 = "none"
  /\ removed = {}
  /\ created = {}
  /\ listed = {}
  /\ popped = <<>>

\* ----------------------------------------------------------- environment
\* The places where the environment puts entries before the first call:
\* plain entries below the source root, plain entries and markers below the
\* target root.
Creatable(p) ==
  /\ p \notin DOMAIN fs
  /\ Kind(fs, Front(p)) = "dir"
  /\ \/ IsPrefix(SrcDir, p) /\ Len(p) <= 1 + SrcDepth /\ Last(p) \in PlainNames
     \/ IsPrefix(TgtDir, p) /\ Len(p) <= 1 + TgtDepth
  /\ Cardinality(DOMAIN fs) < 4 + MaxNodes

\* lib.rs 277-308 (File::create)
CreateFile ==
  /\ pc = "idle"
  /\ \E d \in DOMAIN fs : \E n \in Names :
       /\ Creatable(Append(d, n))
       /\ fs' = With(fs, Append(d, n), FileNode)
  /\ UNCHANGED <<pc, argSource, argTarget, source, target, overwrite, stack,
                 result, calls, fsPre, fsEnd1, result1, removed, created,
                 listed, popped>>

\* lib.rs 277-308 (create_dir)
CreateDir ==
  /\ pc = "idle"
  /\ \E d \in DOMAIN fs : \E n \in PlainNames :
       /\ Creatable(Append(d, n))
       /\ fs' = With(fs, Append(d, n), DirNode)
  /\ UNCHANGED <<pc, argSource, argTarget, source, target, overwrite, stack,
                 result, calls, fsPre, fsEnd1, result1, removed, created,
                 listed, popped>>

\* ------------------------------------------------------ generate_symlinks
\* The validation with the check of the target left out.
valid_paths_source_only(f, src, tgt) ==
  /\ canonicalize(f, src) # NoPath
  /\ is_dir(f, canonicalize(f, src))

\* lib.rs 33-39: both paths resolve, and resolve to directories.
valid_paths(f, src, tgt) ==
  /\ canonicalize(f, src) # NoPath
  /\ canonicalize(f, tgt) # NoPath
  /\ is_dir(f, canonicalize(f, src))
  /\ is_dir(f, canonicalize(f, tgt))

\* The call returns res: the first call's outcome is kept for comparison.
Return(res, n) ==
  /\ pc' = "done"
  /\ result' = res
  /\ fsEnd1' = IF n = 1 THEN fs' ELSE fsEnd1
  /\ result1' = IF n = 1 THEN res ELSE result1

\* lib.rs 31-43: validation and the listing of the source root, for a call
\* that finds the filesystem f.
StartOn(f, src, tgt, ow) ==
  /\ calls' = calls + 1
  /\ argSource' = src /\ argTarget' = tgt /\ overwrite' = ow
  /\ fs' = f
  /\ fsPre' = f
  /\ removed' = {} /\ created' = {} /\ popped' = <<>>
  /\ IF ~valid_paths(f, src, tgt)
     THEN /\ source' = source /\ target' = target
          /\ stack' = <<>> /\ listed' = {}
          /\ Return("err", calls + 1)
     ELSE /\ source' = canonicalize(f, src)
          /\ target' = canonicalize(f, tgt)
          /\ \E r \in go_deeper(f, <<>>, resolve_symlink(f, canonicalize(f, src))) :
               /\ stack' = r.stack
               /\ IF r.ok
                  THEN /\ listed' = {r.dir}
                       /\ pc' = "run" /\ result' = "none"
                       /\ UNCHANGED <<fsEnd1, result1>>
                  ELSE /\ listed' = {}
                       /\ Return("err", calls + 1)

\* lib.rs 31: a call on the filesystem as it is.
Start(src, tgt, ow) == StartOn(fs, src, tgt, ow)

SourceArgs == {SrcDir, PlainFile, Missing}
TargetArgs == {TgtDir, PlainFile, Missing}

\* lib.rs 31: the first call, on any arguments and any policy.
Call ==
  /\ pc = "idle"
  /\ \E src \in SourceArgs : \E tgt \in TargetArgs : \E ow \in Policies :
       Start(src, tgt, ow)

\* lib.rs 31: the same call once more, after the previous one returned.
Repeat ==
  /\ pc = "done"
  /\ calls < MaxCalls
  /\ Start(argSource, argTarget, overwrite)

\* lib.rs 47-57: the entry on top of the stack and its mirrored path.
source_path == stack[Len(stack)]
target_path == target_path_of(source, target, source_path)
Running == pc = "run" /\ stack # <<>> /\ Len(popped) < MaxPops
Popping == Running /\ target_path # NoPath

\* The All arm with unprotected file targets left in place.
decide_All_keeps_files(f, sp, tp) ==
  IF is_file(f, tp) THEN "skip"
  ELSE IF keep_path(f, tp, KeepDirs) THEN "descend" ELSE "replace"

\* The All arm leaving a kept directory alone without listing its source.
decide_All_kept_skips(f, sp, tp) ==
  IF is_file(f, tp)
  THEN IF keep_path(f, tp, KeepFiles) THEN "skip" ELSE "replace"
  ELSE IF keep_path(f, tp, KeepDirs) THEN "skip" ELSE "replace"

\* lib.rs 63-87: what the All arm does with an existing target.
decide_All(f, sp, tp) ==
  IF is_file(f, tp)
  THEN IF keep_path(f, tp, KeepFiles) THEN "skip" ELSE "replace"
  ELSE IF keep_path(f, tp, KeepDirs) THEN "descend" ELSE "replace"

\* The Dirs arm without its keep-check: every directory target is replaced.
decide_Dirs_ignores_markers(f, sp, tp) ==
  IF ~is_dir(f, tp) THEN "skip" ELSE "replace"

\* The Dirs arm entering every directory target instead of replacing it.
decide_Dirs_never_replaces(f, sp, tp) ==
  IF ~is_dir(f, tp) THEN "skip" ELSE "descend"

\* lib.rs 88-102
decide_Dirs(f, sp, tp) ==
  IF ~is_dir(f, tp) THEN "skip"
  ELSE IF keep_path(f, tp, KeepDirs) THEN "descend" ELSE "replace"

\* The Files arm without its is_file test: directory targets are replaced too.
decide_Files_any_kind(f, sp, tp) ==
  IF keep_path(f, tp, KeepFiles) THEN "skip" ELSE "replace"

\* lib.rs 103-122
decide_Files(f, sp, tp) ==
  IF ~is_file(f, tp)
  THEN IF is_dir(f, sp) THEN "descend" ELSE "skip"
  ELSE IF keep_path(f, tp, KeepFiles) THEN "skip" ELSE "replace"

\* The None arm replacing file targets as the Files arm does.
decide_None_replaces_files(f, sp, tp) ==
  IF ~is_file(f, tp)
  THEN IF is_dir(f, sp) THEN "descend" ELSE "skip"
  ELSE "replace"

\* The None arm without the descent into source directories.
decide_None_no_descent(f, sp, tp) == "skip"

\* lib.rs 123-131
decide_None(f, sp, tp) ==
  IF is_dir(f, sp) THEN "descend" ELSE "skip"

\* The failure recorded without leaving the loop.
Abort_keeps_running ==
  /\ stack' = Front(stack)
  /\ result' = "err"
  /\ UNCHANGED <<pc, fsEnd1, result1>>

\* lib.rs 50, 57, 136, 147, 177-180: `?` and bail! return the error.
Abort ==
  /\ stack' = Front(stack)
  /\ Return("err", calls)

Continue ==
  /\ stack' = Front(stack)
  /\ UNCHANGED <<pc, result, fsEnd1, result1>>

\* lib.rs 136: the symlink at the mirrored path, on the filesystem f.
Link(f, sp, tp) ==
  LET l == symlink(f, sp, tp) IN
  /\ fs' = l.fs
  /\ IF l.ok
     THEN /\ created' = created \cup
                          {[path |-> tp, phys |-> LPath(f, tp), to |-> sp]}
          /\ Continue
     ELSE /\ created' = created
          /\ Abort

\* The three things an arm can do with the popped entry (lib.rs 60-136).
Apply(decision, sp, tp) ==
  /\ popped' = Append(popped, sp)
  /\ UNCHANGED <<argSource, argTarget, source, target, overwrite, calls, fsPre>>
  /\ CASE decision = "skip" ->
            /\ Continue
            /\ UNCHANGED <<fs, removed, created, listed>>
       [] decision = "descend" ->
            /\ UNCHANGED <<fs, removed, created>>
            /\ \E r \in go_deeper(fs, Front(stack), sp) :
                 IF r.ok
                 THEN /\ stack' = r.stack
                      /\ listed' = listed \cup {r.dir}
                      /\ UNCHANGED <<pc, result, fsEnd1, result1>>
                 ELSE /\ listed' = listed
                      /\ Abort
       [] decision = "replace" ->
            LET r == remove_path(fs, tp) IN
            /\ listed' = listed
            /\ IF r.ok
               THEN /\ removed' = removed \cup
                        {[path |-> tp, phys |-> LPath(fs, tp),
                          kind |-> LKind(fs, tp)]}
                    /\ Link(r.fs, sp, tp)
               ELSE /\ UNCHANGED <<fs, removed, created>>
                    /\ Abort
       [] decision = "link" ->
            /\ UNCHANGED <<removed, listed>>
            /\ Link(fs, sp, tp)

\* lib.rs 60, 136: the target does not exist, the link is created directly.
LinkDirect ==
  /\ Popping
  /\ ~exists(fs, target_path)
  /\ Apply("link", source_path, target_path)

OverwriteAll ==
  /\ Popping
  /\ exists(fs, target_path)
  /\ overwrite = "All"
  /\ Apply(decide_All(fs, source_path, target_path), source_path, target_path)

OverwriteDirs ==
  /\ Popping
  /\ exists(fs, target_path)
  /\ overwrite = "Dirs"
  /\ Apply(decide_Dirs(fs, source_path, target_path), source_path, target_path)

OverwriteFiles ==
  /\ Popping
  /\ exists(fs, target_path)
  /\ overwrite = "Files"
  /\ Apply(decide_Files(fs, source_path, target_path), source_path, target_path)

OverwriteNone ==
  /\ Popping
  /\ exists(fs, target_path)
  /\ overwrite = "None"
  /\ Apply(decide_None(fs, source_path, target_path), source_path, target_path)

\* lib.rs 47-49, 140: the stack is empty, the call returns Ok.
Finish ==
  /\ pc = "run"
  /\ stack = <<>>
  /\ fs' = fs
  /\ Return("ok", calls)
  /\ UNCHANGED <<argSource, argTarget, source, target, overwrite, stack,
                 calls, fsPre, removed, created, listed, popped>>

Next ==
  \/ CreateFile
  \/ CreateDir
  \/ Call
  \/ Repeat
  \/ LinkDirect
  \/ OverwriteAll
  \/ OverwriteDirs
  \/ OverwriteFiles
  \/ OverwriteNone
  \/ Finish

Spec == Init /\ [][Next]_vars

TypeOK ==
  /\ pc \in {"idle", "run", "done"}
  /\ result \in {"none", "ok", "err"}
  /\ overwrite \in Policies
  /\ calls \in 0..MaxCalls
  /\ \A p \in DOMAIN fs : p = Root \/ Kind(fs, Front(p)) = "dir"

\* ------------------------------------------- further environments and runs
\* lib.rs 31: a call on the two directories.
CallDirs ==
  /\ pc = "idle"
  /\ \E ow \in Policies : Start(SrcDir, TgtDir, ow)

\* lib.rs 166-172: a marker file outside the target tree, in the directory
\* that holds the target root, where the ancestor walk of keep_path arrives.
CreateOutsideMarker ==
  /\ pc = "idle"
  /\ \E k \in Markers :
       /\ <<k>> \notin DOMAIN fs
       /\ Cardinality(DOMAIN fs) < 4 + MaxNodes
       /\ fs' = With(fs, <<k>>, FileNode)
  /\ UNCHANGED <<pc, argSource, argTarget, source, target, overwrite, stack,
                 result, calls, fsPre, fsEnd1, result1, removed, created,
                 listed, popped>>

\* The marker files of f that are not under the directory tgt.
OutsideMarkers(f, tgt) ==
  {p \in DOMAIN f : Last(p) \in Markers /\ ~IsPrefix(tgt, p)}

\* lib.rs 31: the same call once more, on the filesystem the first call
\* found with the markers outside the target tree taken away.
RerunUnmarked ==
  /\ pc = "done" /\ calls = 1
  /\ StartOn(Without(fsPre, OutsideMarkers(fsPre, target)),
             argSource, argTarget, overwrite)

NextOutside ==
  \/ CreateFile
  \/ CreateDir
  \/ CreateOutsideMarker
  \/ CallDirs
  \/ RerunUnmarked
  \/ LinkDirect
  \/ OverwriteAll
  \/ OverwriteDirs
  \/ OverwriteFiles
  \/ OverwriteNone
  \/ Finish

SpecOutside == Init /\ [][NextOutside]_vars

\* Where a symlinked source directory points: at the source root itself and
\* at a directory outside the source tree.
LinkTargets == {SrcDir, TgtDir}

\* lib.rs 151-156: the source tree holds a symlink to a directory.
CreateLink ==
  /\ pc = "idle"
  /\ \E d \in DOMAIN fs : \E n \in PlainNames : \E to \in LinkTargets :
       /\ IsPrefix(SrcDir, d)
       /\ Creatable(Append(d, n))
       /\ fs' = With(fs, Append(d, n), LinkNode(to))
  /\ UNCHANGED <<pc, argSource, argTarget, source, target, overwrite, stack,
                 result, calls, fsPre, fsEnd1, result1, removed, created,
                 listed, popped>>

\* lib.rs 61: match overwrite.
decide(f, ow, sp, tp) ==
  CASE ow = "All" -> decide_All(f, sp, tp)
    [] ow = "Dirs" -> decide_Dirs(f, sp, tp)
    [] ow = "Files" -> decide_Files(f, sp, tp)
    [] ow = "None" -> decide_None(f, sp, tp)

\* A step that fails and changes nothing on the way.
FailUntouched ==
  /\ UNCHANGED <<fs, argSource, argTarget, source, target, overwrite, calls,
                 fsPre, removed, created, listed>>
  /\ Abort

\* lib.rs 52-57: strip_prefix fails on a popped path that is not under the
\* source root.
PathDerivationError ==
  /\ Running
  /\ target_path = NoPath
  /\ popped' = Append(popped, source_path)
  /\ FailUntouched

\* lib.rs 50: the popped listing entry is an I/O error.
EntryError ==
  /\ Running
  /\ popped' = popped
  /\ FailUntouched

\* lib.rs 147: read_dir fails on a directory the arm descends into.
ListingFault ==
  /\ Popping
  /\ exists(fs, target_path)
  /\ decide(fs, overwrite, source_path, target_path) = "descend"
  /\ popped' = Append(popped, source_path)
  /\ FailUntouched

\* lib.rs 177-180: remove_file or remove_dir_all fails.
RemoveFault ==
  /\ Popping
  /\ exists(fs, target_path)
  /\ decide(fs, overwrite, source_path, target_path) = "replace"
  /\ popped' = Append(popped, source_path)
  /\ FailUntouched

\* lib.rs 136: symlink fails, for an absent target or after the removal of
\* the existing one.
SymlinkFault ==
  /\ Popping
  /\ popped' = Append(popped, source_path)
  /\ UNCHANGED <<argSource, argTarget, source, target, overwrite, calls,
                 fsPre, created, listed>>
  /\ IF ~exists(fs, target_path)
     THEN UNCHANGED <<fs, removed>>
     ELSE LET r == remove_path(fs, target_path) IN
          /\ decide(fs, overwrite, source_path, target_path) = "replace"
          /\ r.ok
          /\ fs' = r.fs
          /\ removed' = removed \cup
               {[path |-> target_path, phys |-> LPath(fs, target_path),
                 kind |-> LKind(fs, target_path)]}
  /\ Abort

NextLinks ==
  \/ CreateFile
  \/ CreateDir
  \/ CreateLink
  \/ CallDirs
  \/ LinkDirect
  \/ OverwriteAll
  \/ OverwriteDirs
  \/ OverwriteFiles
  \/ OverwriteNone
  \/ PathDerivationError
  \/ EntryError
  \/ ListingFault
  \/ RemoveFault
  \/ SymlinkFault
  \/ Finish

SpecLinks == Init /\ [][NextLinks]_vars

\* lib.rs 144-149: a source entry that bears a marker's name.
CreateSourceMarker ==
  /\ pc = "idle"
  /\ \E d \in DOMAIN fs : \E k \in Markers :
       /\ IsPrefix(SrcDir, d)
       /\ Kind(fs, d) = "dir"
       /\ Append(d, k) \notin DOMAIN fs
       /\ Len(d) <= SrcDepth
       /\ Cardinality(DOMAIN fs) < 4 + MaxNodes
       /\ fs' = With(fs, Append(d, k), FileNode)
  /\ UNCHANGED <<pc, argSource, argTarget, source, target, overwrite, stack,
                 result, calls, fsPre, fsEnd1, result1, removed, created,
                 listed, popped>>

\* lib.rs 31: the same call once more on the filesystem the first call
\* found; its listings may yield the siblings in another order.
Rerun ==
  /\ pc = "done" /\ calls = 1
  /\ StartOn(fsPre, argSource, argTarget, overwrite)

NextOrder ==
  \/ CreateFile
  \/ CreateDir
  \/ CreateSourceMarker
  \/ CallDirs
  \/ Rerun
  \/ LinkDirect
  \/ OverwriteAll
  \/ OverwriteDirs
  \/ OverwriteFiles
  \/ OverwriteNone
  \/ Finish

SpecOrder == Init /\ [][NextOrder]_vars

\* ------------------------------------------------------------ properties
Mirror(p) == target_path_of(source, target, p)
UnderTarget(f) == {p \in DOMAIN f : IsPrefix(target, p) /\ p # target}
UnderSource(f) == {p \in DOMAIN f : IsPrefix(source, p) /\ p # source}
Started == pc # "idle"
Validated == Started /\ source # Root
PoppedSet == {popped[i] : i \in 1..Len(popped)}

\* C1: for every policy, a call whose source or target does not resolve to
\* an existing directory returns an error and touches nothing: no directory
\* is listed, no entry is popped, no path is removed, no symlink is created
\* and the filesystem is the one the call found.
C1_InvalidPathsFail ==
  (Started /\ (~is_dir(fsPre, argSource) \/ ~is_dir(fsPre, argTarget)))
    => /\ pc = "done" /\ result = "err"
       /\ listed = {} /\ popped = <<>> /\ removed = {} /\ created = {}
       /\ fs = fsPre

C1_Witness ==
  /\ pc = "done" /\ result = "err" /\ calls = 1
  /\ argSource = SrcDir /\ argTarget = PlainFile
  /\ overwrite = "All"
  /\ \E p \in DOMAIN fs : Len(p) = 2 /\ IsPrefix(SrcDir, p)
  /\ \E p \in DOMAIN fs : Len(p) = 2 /\ IsPrefix(TgtDir, p)

\* C2 (as claimed): keep-file inviolability, stated for `.keep`, the marker
\* every policy recognizes for every kind of target.  Every target path that
\* a `.keep` marker protected when the call started (a marker inside it,
\* beside it or beside one of its ancestors), and everything that existed
\* under it, is still there unchanged at every later point of the call.
C2_KeepInviolable ==
  Validated =>
    \A p \in UnderTarget(fsPre) :
      keep_path(fsPre, p, {".keep"})
        => \A q \in DOMAIN fsPre :
             IsPrefix(p, q) => (q \in DOMAIN fs /\ fs[q] = fsPre[q])

\* C3 (as claimed): under every policy a target directory that contains a
\* .keep_files marker stays a real directory, and every file that existed in
\* it stays the same real file.
C3_KeepFilesDirectoryKept ==
  Validated =>
    \A d \in UnderTarget(fsPre) :
      (Kind(fsPre, d) = "dir" /\ Append(d, ".keep_files") \in DOMAIN fsPre)
        => /\ Kind(fs, d) = "dir"
           /\ \A q \in DOMAIN fsPre :
                (Front(q) = d /\ fsPre[q].kind = "file")
                  => (q \in DOMAIN fs /\ fs[q] = fsPre[q])

\* C4: under policy None no call removes or replaces anything that existed
\* under target when the call started: every such path is still there with
\* the same kind, and the call removed nothing at all.
C4_NoneRemovesNothing ==
  (Validated /\ overwrite = "None")
    => /\ removed = {}
       /\ \A p \in UnderTarget(fsPre) :
            p \in DOMAIN fs /\ fs[p].kind = fsPre[p].kind

C4_Witness ==
  /\ pc = "done" /\ result = "ok" /\ overwrite = "None"
  /\ created # {}
  /\ \E sp \in PoppedSet : Kind(fsPre, Mirror(sp)) = "file"

\* C5 (as claimed): under policy Dirs every target the call removes is a
\* directory; a target that is a file or a symlink when it is visited is
\* never removed or replaced.
C5_DirsRemovesOnlyDirectories ==
  (Validated /\ overwrite = "Dirs") => \A r \in removed : r.kind = "dir"

\* C6: under policy Files no directory is removed: every directory that
\* existed when the call started is still a real directory, and what the
\* call removed were files or symlinks.
C6_FilesKeepsDirectories ==
  (Validated /\ overwrite = "Files")
    => /\ \A p \in DOMAIN fsPre :
            fsPre[p].kind = "dir" => Kind(fs, p) = "dir"
       /\ \A r \in removed : r.kind \in {"file", "link"}

C6_Witness ==
  /\ pc = "done" /\ result = "ok" /\ overwrite = "Files"
  /\ \E r \in removed : r.kind = "file"
  /\ \E sp \in PoppedSet : Kind(fsPre, Mirror(sp)) = "dir"

\* C7 (as claimed): idempotence after success.  When the first call
\* succeeded, the second call with the same arguments succeeds too and leaves
\* the whole filesystem as the first call left it.
C7_IdempotentAfterSuccess ==
  (calls = 2 /\ pc = "done" /\ result1 = "ok")
    => (result = "ok" /\ fs = fsEnd1)

NoMarkers(f) == \A q \in DOMAIN f : Last(q) \notin Markers

\* C8 (as claimed): coverage.  Under All with no marker anywhere, after a
\* successful call every path under source has a symlink at its mirrored
\* path under target that points at it.
C8_CoverageEveryPathLinked ==
  (pc = "done" /\ result = "ok" /\ overwrite = "All" /\ NoMarkers(fsPre))
    => \A p \in UnderSource(fsPre) :
         /\ LKind(fs, Mirror(p)) = "link"
         /\ read_link(fs, Mirror(p)) = p

\* C8 (amended): under All with no marker anywhere, after a successful call
\* every top-level entry of source has a symlink at its mirrored path that
\* points at it, and every deeper source path has no symlink of its own: its
\* mirrored path is, through the link of its top-level ancestor, the source
\* entry itself.
C8_CoverageThroughTopLevelLinks ==
  (pc = "done" /\ result = "ok" /\ overwrite = "All" /\ NoMarkers(fsPre))
    => \A p \in UnderSource(fsPre) :
         IF Len(p) = Len(source) + 1
         THEN /\ Mirror(p) \in DOMAIN fs
              /\ fs[Mirror(p)] = LinkNode(p)
         ELSE /\ LPath(fs, Mirror(p)) = p
              /\ fs[p] = fsPre[p]

C8_Witness ==
  /\ pc = "done" /\ result = "ok" /\ overwrite = "All" /\ NoMarkers(fsPre)
  /\ calls = 1
  /\ \E p \in UnderSource(fsPre) : Len(p) = Len(source) + 2
  /\ \E r \in removed : r.kind = "dir"
  /\ \E q \in UnderTarget(fsPre) : Len(q) = Len(target) + 2

\* C9 (as claimed): whenever the mirrored target path of the popped source
\* entry does not exist, this step creates a symlink at the mirrored path
\* that points at the source entry, under every policy and whatever markers
\* there are.
C9_AbsentTargetIsLinked ==
  [][(Popping /\ ~exists(fs, target_path))
       => /\ result' # "err"
          /\ LKind(fs', target_path) = "link"
          /\ read_link(fs', target_path) = source_path]_vars

\* The directories between the target root and p, p itself left out.
ProperAncestors(p) ==
  {SubSeq(p, 1, n) : n \in (Len(target) + 1)..(Len(p) - 1)}

\* C10: under policy None existing target directories are descended.  After
\* a successful call every source entry whose mirrored path did not exist
\* when the call started, and whose mirrored ancestors were all real
\* directories, has a symlink to it at the mirrored path, and every source
\* entry whose mirrored path existed finds it as it was.
C10_NoneDescends ==
  (pc = "done" /\ result = "ok" /\ overwrite = "None")
    => \A p \in UnderSource(fsPre) :
         IF Mirror(p) \in DOMAIN fsPre
         THEN Mirror(p) \in DOMAIN fs /\ fs[Mirror(p)] = fsPre[Mirror(p)]
         ELSE (\A anc \in ProperAncestors(Mirror(p)) : Kind(fsPre, anc) = "dir")
                => (Mirror(p) \in DOMAIN fs /\ fs[Mirror(p)] = LinkNode(p))

C10_Witness ==
  /\ pc = "done" /\ result = "ok" /\ overwrite = "None" /\ calls = 1
  /\ \E c \in created : Len(c.path) = Len(target) + 2
  /\ \E sp \in PoppedSet : Kind(fsPre, Mirror(sp)) = "dir"

\* The entries directly inside the directory d of the filesystem f.
Children(f, d) == {c \in DOMAIN f : c # Root /\ Front(c) = d}

\* The popped source directories whose mirrored path was, when the call
\* started, a real directory protected by a marker of the set keep.
KeptVisited(keep) ==
  {sp \in PoppedSet : /\ Kind(fsPre, sp) = "dir"
                      /\ Kind(fsPre, Mirror(sp)) = "dir"
                      /\ keep_path(fsPre, Mirror(sp), keep)}

\* C11: under All and under Dirs, a visited target directory that `.keep` or
\* `.keep_dirs` protects is not replaced: it is still a real directory and
\* the markers it held are still in it.  Its source directory was listed and
\* its children pushed, so after a successful call every source child has
\* been popped, and each child that had no target inside the protected
\* directory has a symlink there that points at it.
C11_KeptDirectoryDescended ==
  (Validated /\ overwrite \in {"All", "Dirs"})
    => \A sp \in KeptVisited(KeepDirs) :
         /\ Kind(fs, Mirror(sp)) = "dir"
         /\ \A r \in removed : r.path # Mirror(sp)
         /\ \A k \in KeepDirs :
              Append(Mirror(sp), k) \in DOMAIN fsPre
                => Append(Mirror(sp), k) \in DOMAIN fs
         /\ sp \in listed
         /\ (pc = "done" /\ result = "ok")
              => \A c \in Children(fsPre, sp) :
                   /\ c \in PoppedSet
                   /\ Mirror(c) \notin DOMAIN fsPre
                        => (Mirror(c) \in DOMAIN fs /\ fs[Mirror(c)] = LinkNode(c))

C11_Witness ==
  /\ pc = "done" /\ result = "ok" /\ overwrite \in {"All", "Dirs"}
  /\ \E sp \in KeptVisited(KeepDirs) :
       \E c \in Children(fsPre, sp) :
         /\ Mirror(c) \notin DOMAIN fsPre
         /\ fs[Mirror(c)] = LinkNode(c)

\* The real directories directly under the target root that held a `.keep`
\* marker when the call started.
TopLevelKept ==
  {d \in DOMAIN fsPre : /\ d # Root /\ Front(d) = target
                        /\ fsPre[d].kind = "dir"
                        /\ Append(d, ".keep") \in DOMAIN fsPre}

\* What existed in or under d when the call started is there unchanged, and
\* the call removed nothing in or under d.
Untouched(d) ==
  /\ \A q \in DOMAIN fsPre :
       IsPrefix(d, q) => (q \in DOMAIN fs /\ fs[q] = fsPre[q])
  /\ \A r \in removed : ~IsPrefix(d, r.phys)

UnprotectedVisited ==
  {sp \in PoppedSet : /\ Kind(fsPre, Mirror(sp)) = "dir"
                      /\ ~keep_path(fsPre, Mirror(sp), Markers)}

\* C13: under All and under Dirs, a visited target directory target/r that
\* no marker protects is removed with all its contents and replaced by one
\* symlink to source/r.  The source children of r are not pushed: nothing
\* below source/r is popped, no symlink is created at any target/r/x, and no
\* entry of the old directory is left under target/r.
C13_UnprotectedDirectoryReplaced ==
  (Validated /\ overwrite \in {"All", "Dirs"})
    => \A sp \in UnprotectedVisited :
         LET tp == Mirror(sp) IN
         /\ tp \in DOMAIN fs /\ fs[tp] = LinkNode(sp)
         /\ \E r \in removed : r.path = tp /\ r.kind = "dir"
         /\ \A q \in DOMAIN fs : ~(IsPrefix(tp, q) /\ q # tp)
         /\ \A c \in created : ~(IsPrefix(tp, c.path) /\ c.path # tp)
         /\ sp \notin listed
         /\ \A x \in PoppedSet : ~(IsPrefix(sp, x) /\ x # sp)

C13_Witness ==
  /\ pc = "done" /\ result = "ok" /\ overwrite = "Dirs"
  /\ \E sp \in UnprotectedVisited :
       /\ fs[Mirror(sp)] = LinkNode(sp)
       /\ Children(fsPre, sp) # {}
       /\ Children(fsPre, Mirror(sp)) # {}

\* What is under the target root in f.
TargetState(f) == [p \in {q \in DOMAIN f : IsPrefix(target, q)} |-> f[p]]

\* C14 (as claimed): only marker files in the target tree influence the
\* result.  When a run succeeds, the run with the same arguments on the same
\* filesystem without its markers outside the target tree succeeds too and
\* ends in the same target state.
C14_OutsideMarkersIgnored ==
  (calls = 2 /\ pc = "done" /\ result1 = "ok")
    => (result = "ok" /\ TargetState(fs) = TargetState(fsEnd1))

\* C15: fail-fast, non-transactional abort.  A call that has recorded an
\* error has returned.  A step of the loop that cannot succeed (the popped
\* path is not under the source root, or the symlink for an absent target
\* cannot be created) ends in the error.  The failing step, whatever failed
\* in it, creates no symlink, leaves the rest of the stack unprocessed, and
\* leaves the filesystem as the earlier steps made it, less at most the one
\* target this step removed before its symlink failed.  After the error no
\* variable changes until a new call starts.
C15_FailFast ==
  /\ [](result = "err" => pc = "done")
  /\ [][ /\ (Running /\ target_path = NoPath) => result' = "err"
         /\ (Popping /\ ~exists(fs, target_path)
               /\ ~symlink(fs, source_path, target_path).ok) => result' = "err"
         /\ (pc = "run" /\ result' = "err")
              => /\ pc' = "done"
                 /\ stack' = Front(stack)
                 /\ created' = created
                 /\ listed' = listed
                 /\ \/ fs' = fs /\ removed' = removed
                    \/ /\ target_path # NoPath
                       /\ fs' = Without(fs, {q \in DOMAIN fs :
                                   IsPrefix(LPath(fs, target_path), q)})
         /\ (pc = "done" /\ result = "err" /\ calls' = calls)
              => UNCHANGED vars ]_vars

C15_Witness ==
  /\ pc = "done" /\ result = "err"
  /\ stack # <<>>
  /\ \E c \in created : /\ c.phys \notin DOMAIN fsPre
                         /\ c.phys \in DOMAIN fs
                         /\ fs[c.phys] = LinkNode(c.to)
  /\ \E r \in removed : r.phys \notin DOMAIN fs

\* C16 (as claimed): each pending entry is consumed once: no source path is
\* popped twice within one call, also when the source tree holds symlinked
\* directories.
C16_PoppedOnce ==
  \A i, j \in 1..Len(popped) : popped[i] = popped[j] => i = j

\* C17 (as claimed): every path on the work stack and every popped path is
\* under the source root, also when a symlinked source directory was listed,
\* so that stripping the source prefix cannot fail.
C17_StackUnderSource ==
  pc = "run" =>
    /\ \A i \in 1..Len(stack) : IsPrefix(source, stack[i])
    /\ \A i \in 1..Len(popped) : IsPrefix(source, popped[i])

\* C18 (as claimed): the source tree is never mutated.  In every call, the
\* first and a repeated one that finds the links of the earlier call in
\* target, every removal and every symlink creation acts on an entry that
\* is physically under the target root, and every entry under the source
\* root is there unchanged.
C18_SourceNeverMutated ==
  Validated =>
    /\ \A r \in removed : IsPrefix(target, r.phys)
    /\ \A c \in created : IsPrefix(target, c.phys)
    /\ \A p \in UnderSource(fsPre) : p \in DOMAIN fs /\ fs[p] = fsPre[p]

\* C19 (as claimed): with no symlink in source or target when the call
\* starts (the first call on trees of files and directories), a call on two
\* existing directories returns Ok under every policy.
C19_PlainTreesSucceed ==
  (pc = "done" /\ is_dir(fsPre, argSource) /\ is_dir(fsPre, argTarget)
     /\ \A p \in DOMAIN fsPre : fsPre[p].kind # "link")
    => result = "ok"

\* C20 (as claimed): the final state of a successful call does not depend on
\* the order in which the listings yield siblings.  Two successful runs with
\* the same policy on the same source and target, whatever order their
\* listings take, end in the same filesystem, also when source holds entries
\* that bear a marker's name.
C20_OrderIndependent ==
  (calls = 2 /\ pc = "done" /\ result1 = "ok" /\ result = "ok")
    => fs = fsEnd1

====
